---- MODULE Spec2Model ----
(***************************************************************************)
(* A model of github.com/cgxeiji/ring: layers of pixels with sub-pixel     *)
(* rotation, the colour arithmetic (serialize, blendOver, blendLerp) and   *)
(* the ring's render pass onto a WS2811 device.                            *)
(*                                                                         *)
(* A colour is the tuple <<r, g, b, a>> of the 16-bit alpha-premultiplied  *)
(* channels that Go's color.Color.RGBA() returns for it.  Angles are       *)
(* integers k standing for k * 2*pi / AngleSteps radians, so that          *)
(* angle/pixArc = k*Resolution/AngleSteps is an exact rational.            *)
(***************************************************************************)
EXTENDS Integers, Sequences, FiniteSets, TLC

VARIABLES
    ledCount,   \* Ring.opt.LedCount
    lyr,        \* the Layer objects created so far (a sequence of records)
    rotated,    \* history: the last angle passed to Rotate of each layer (0 if none)
    layers,     \* Ring.layers: indices into lyr, bottom first
    offset,     \* Ring.offset, as the numerator of offset = n / AngleSteps
    ledOffset,  \* Ring.ledOffset
    turned,     \* history: the last angle passed to Offset (0 if none)
    leds,       \* the device buffer, device.Leds(0)
    devOpen,    \* FALSE once device.Fini() has run
    last,       \* history: the last API call, its arguments and its result
    prev,       \* history: whether the call before the last one was TurnOff
    rt,         \* the render tasks (goroutines inside Ring.Render)
    at,         \* the animation task (a goroutine inside a mutation of layer 1)
    args,       \* the arguments handed to a colour function
    got         \* what the colour function returned for them

ringVars  == <<ledCount, layers, offset, ledOffset, turned>>
layerVars == <<lyr, rotated>>
devVars   == <<leds, devOpen>>
histVars  == <<last, prev>>
concVars  == <<rt, at>>
mathVars  == <<args, got>>
vars      == <<ledCount, lyr, rotated, layers, offset, ledOffset, turned, leds, devOpen,
               last, prev, rt, at, args, got>>

----------------------------------------------------------------------------
(* Bounds of the model *)

MaxLayers == 2
MaxRes == 3
NumLeds == 3
AngleSteps == 4

----------------------------------------------------------------------------
(* Colours: image/color values by their RGBA() channels *)

Max16 == 65535
Shift8 == 256
Word16 == Max16 + 1

\* color.RGBA{R, G, B, A}.RGBA(): each 8-bit channel v becomes v | v<<8
RGBA8(c) == <<c[1] * 257, c[2] * 257, c[3] * 257, c[4] * 257>>

\* color.NRGBA{R, G, B, A}.RGBA(): the channel is premultiplied by alpha
NRGBA(R, G, B, A) ==
    <<(R * 257 * A) \div 255, (G * 257 * A) \div 255, (B * 257 * A) \div 255, A * 257>>

Transparent == <<0, 0, 0, 0>>
White == <<Max16, Max16, Max16, Max16>>
OpaqueRed == RGBA8(<<255, 0, 0, 255>>)
DarkBlue == NRGBA(0, 0, 128, 200)

Palette == {Transparent, OpaqueRed, DarkBlue}

----------------------------------------------------------------------------
(* uint32 arithmetic on 16-bit operands.  A uint32 is kept as the pair     *)
(* <<hi, lo>> of its 16-bit halves, since its value may exceed the range   *)
(* of the checker's integers.                                              *)

\* x * y for x, y in 0..0xFFFF (no wrap: the product is below 2^32)
Mul16(x, y) ==
    LET x1 == x \div Shift8  x0 == x % Shift8
        y1 == y \div Shift8  y0 == y % Shift8
        mid == x1 * y0 + x0 * y1
        low == (mid % Shift8) * Shift8 + x0 * y0
    IN  <<x1 * y1 + mid \div Shift8 + low \div Word16, low % Word16>>

\* 0 - w in uint32 (two's complement)
Neg32(w) ==
    IF w[2] = 0 THEN <<(Word16 - w[1]) % Word16, 0>>
                ELSE <<Max16 - w[1], Word16 - w[2]>>

\* (x - y) * l in uint32, for x, y, l in 0..0xFFFF: x - y wraps when x < y
SubMul32(x, y, l) ==
    IF x >= y THEN Mul16(x - y, l) ELSE Neg32(Mul16(y - x, l))

\* w / 0xFFFF: hi*65536 + lo = hi*65535 + (hi + lo)
Div16(w) == w[1] + (w[1] + w[2]) \div Max16

\* uint8(v >> 8) for a uint32 v given as the (possibly negative) integer
\* it is congruent to modulo 2^32
Hi8(v) == (v \div Shift8) % Shift8

----------------------------------------------------------------------------
(* Colour arithmetic *)

\* a serialize that packs the channels as 0x00BBGGRR
serializeBGR(c) ==
    ((c[3] \div Shift8) * Shift8 * Shift8) + ((c[2] \div Shift8) * Shift8) + (c[1] \div Shift8)

\* serialize: 0x00RRGGBB from the high bytes of r, g, b; the three fields do
\* not overlap, so | is +
serialize(c) ==
    ((c[1] \div Shift8) * Shift8 * Shift8) + ((c[2] \div Shift8) * Shift8) + (c[3] \div Shift8)

\* the closure over of blendOver: uint8((a + b*delta/0xFFFF) >> 8)
over(a, b, delta) == Hi8(a + Div16(Mul16(b, delta)))

\* an iteration that puts the accumulated blend over the colour c
overStepUnder(blend, c) ==
    LET bl == RGBA8(blend)
        delta == Max16 - bl[4]
    IN  <<over(bl[1], c[1], delta), over(bl[2], c[2], delta),
          over(bl[3], c[3], delta), over(bl[4], c[4], delta)>>

\* one iteration of blendOver's loop: colour c over the accumulated blend
\* (blend is the color.RGBA struct, 8 bits a channel)
overStep(blend, c) ==
    LET bl == RGBA8(blend)
        delta == Max16 - c[4]
    IN  <<over(c[1], bl[1], delta), over(c[2], bl[2], delta),
          over(c[3], bl[3], delta), over(c[4], bl[4], delta)>>

RECURSIVE overFold(_, _)
overFold(blend, cs) ==
    IF cs = <<>> THEN blend ELSE overFold(overStep(blend, Head(cs)), Tail(cs))

\* blendOver(cs...): first colour at the bottom, last on top
blendOver(cs) == RGBA8(overFold(<<0, 0, 0, 0>>, cs))

\* the closure lerp of blendLerp: uint8((a - (a-b)*l/0xFFFF) >> 8)
lerpChan(a, b, l16) == Hi8(a - Div16(SubMul32(a, b, l16)))

\* blendLerp(a, b, l) for the fraction l = l[1] / l[2]
blendLerp(a, b, l) ==
    LET l16 == (l[1] * Max16) \div l[2]
    IN  RGBA8(<<lerpChan(a[1], b[1], l16), lerpChan(a[2], b[2], l16),
                lerpChan(a[3], b[3], l16), lerpChan(a[4], b[4], l16)>>)

----------------------------------------------------------------------------
(* Layer *)

mod(p, n) ==
    LET r == IF p >= 0 THEN p % n ELSE -((-p) % n)
    IN  IF r < 0 THEN r + n ELSE r

pixelRaw(L, i) == L.pixels[mod(i, L.res)]

pixelRotated(L, i) ==
    blendLerp(pixelRaw(L, i + L.rotInt), pixelRaw(L, i + L.rotInt + 1),
              <<L.rotFloat, AngleSteps>>)

update(L) == [L EXCEPT !.buffer = [i \in 0..(L.res - 1) |-> pixelRotated(L, i)]]

Pixel(L, i) == L.buffer[mod(i, L.res)]

\* the Layer that NewLayer returns: every pixel color.Transparent, sampled
NewLayerValue(res, mode) ==
    update([res |-> res, mode |-> mode, rotInt |-> 0, rotFloat |-> 0,
            pixels |-> [i \in 0..(res - 1) |-> Transparent],
            buffer |-> [i \in 0..(res - 1) |-> Transparent]])

SetAllValue(L, c) == update([L EXCEPT !.pixels = [i \in 0..(L.res - 1) |-> c]])

\* a SetPixel that stores the colour and forgets to resample
SetPixelStale(L, i, c) == [L EXCEPT !.pixels[i] = c]

SetPixelValue(L, i, c) == update([L EXCEPT !.pixels[i] = c])

\* a Rotate that adds the angle to the rotation the layer already has
RotateRelative(L, k) ==
    update([L EXCEPT !.rotInt = L.rotInt + ((L.rotFloat + k * L.res) \div AngleSteps),
                     !.rotFloat = (L.rotFloat + k * L.res) % AngleSteps])

\* Rotate(angle) with angle = k * 2*pi/AngleSteps: rotArc = angle/pixArc = k*res/AngleSteps
RotateValue(L, k) ==
    update([L EXCEPT !.rotInt = (k * L.res) \div AngleSteps,
                     !.rotFloat = (k * L.res) % AngleSteps])

----------------------------------------------------------------------------
(* Ring *)

ContentModes == {"Tile", "Crop", "Scale"}

\* scale with its two ranges exchanged
scaleSwapped(v, fmax, tmax) == (v * fmax) \div tmax

scale(v, fmax, tmax) == (v * tmax) \div fmax

Size == ledCount

\* a switch that treats every layer as ContentCrop
layerPixelCrop(L, i) == IF i < L.res THEN Pixel(L, i) ELSE Transparent

\* the colour layer L contributes at ring position i (the switch in Render)
layerPixel(L, i) ==
    CASE L.mode = "Tile"  -> Pixel(L, i)
      [] L.mode = "Crop"  -> IF i < L.res THEN Pixel(L, i) ELSE Transparent
      [] L.mode = "Scale" -> Pixel(L, scale(i, Size, L.res))

\* pixels[i] of Render: the layers at position i, blended bottom to top
composite(i) == blendOver([j \in 1..Len(layers) |-> layerPixel(lyr[layers[j]], i)])

lerp(i, pixels, alpha) ==
    blendLerp(pixels[mod(i, Size)], pixels[mod(i + 1, Size)], alpha)

\* a shift taken from r.ledOffset, which Offset rounds towards zero
renderShiftTrunc == ledOffset

\* rotInt := math.Floor(r.offset)
renderShift == offset \div AngleSteps

\* the frame Render writes to device.Leds(0)
renderFrame ==
    LET pixels == [i \in 0..(Size - 1) |-> composite(i)]
        rotFloat == offset - renderShift * AngleSteps
    IN  [i \in 0..(Size - 1) |->
            serialize(lerp(renderShift + i, pixels, <<rotFloat, AngleSteps>>))]

Dark == [i \in 0..(Size - 1) |-> 0]

----------------------------------------------------------------------------
(* The API calls, one action each *)

Angles == {-(AngleSteps + 1), -1, 0, 1, AngleSteps}

\* a goroutine that is in no call
AtRest == [pc |-> "idle"]

Call(op, ret, arg, flushes, failed) ==
    [op |-> op, ret |-> ret, arg |-> arg, flushes |-> flushes, failed |-> failed]

Step(call) ==
    /\ last' = call
    /\ prev' = IF last.op = "TurnOff" THEN [op |-> "TurnOff", flushes |-> last.flushes]
                                     ELSE [op |-> "other", flushes |-> <<>>]
    /\ UNCHANGED <<concVars, mathVars>>

SetAll(l, c) ==
    /\ lyr' = [lyr EXCEPT ![l] = SetAllValue(lyr[l], c)]
    /\ Step(Call("SetAll", "none", <<>>, <<>>, 0))
    /\ UNCHANGED <<rotated, ringVars, devVars>>

\* l.pixels[i] = c is an unchecked slice store: it panics out of range
SetPixel(l, i, c) ==
    /\ IF i < 0 \/ i >= lyr[l].res
         THEN /\ UNCHANGED lyr
              /\ Step(Call("SetPixel", "panic", <<l, i, c>>, <<>>, 0))
         ELSE /\ lyr' = [lyr EXCEPT ![l] = SetPixelValue(lyr[l], i, c)]
              /\ Step(Call("SetPixel", "none", <<l, i, c>>, <<>>, 0))
    /\ UNCHANGED <<rotated, ringVars, devVars>>

Rotate(l, k) ==
    /\ lyr' = [lyr EXCEPT ![l] = RotateValue(lyr[l], k)]
    /\ rotated' = [rotated EXCEPT ![l] = k]
    /\ Step(Call("Rotate", "none", <<>>, <<>>, 0))
    /\ UNCHANGED <<ringVars, devVars>>

AddLayer(l) ==
    /\ Len(layers) < MaxLayers
    /\ layers' = Append(layers, l)
    /\ Step(Call("AddLayer", "none", <<>>, <<>>, 0))
    /\ UNCHANGED <<ledCount, offset, ledOffset, turned, layerVars, devVars>>

\* Offset(rotation) with rotation = k * 2*pi/AngleSteps: rotation/ledArc = k*LedCount/AngleSteps
Offset(k) ==
    /\ ledOffset' = IF k < 0 THEN -((-(k * ledCount)) \div AngleSteps)
                             ELSE (k * ledCount) \div AngleSteps
    /\ offset' = k * ledCount
    /\ turned' = k
    /\ Step(Call("Offset", "none", <<>>, <<>>, 0))
    /\ UNCHANGED <<ledCount, layers, layerVars, devVars>>

\* a Render that consumes the offset it applied
RenderResetsOffset(ok) ==
    /\ devOpen
    /\ leds' = renderFrame
    /\ offset' = 0
    /\ Step(Call("Render", IF ok THEN "ok" ELSE "err", <<>>, <<renderFrame = Dark>>,
                 IF ok THEN 0 ELSE 1))
    /\ UNCHANGED <<devOpen, ledCount, layers, ledOffset, turned, layerVars>>

\* Render; ok is the result of the device's flush
Render(ok) ==
    LET frame == renderFrame
    IN  /\ devOpen
        /\ leds' = frame
        /\ Step(Call("Render", IF ok THEN "ok" ELSE "err", <<>>, <<frame = Dark>>,
                     IF ok THEN 0 ELSE 1))
        /\ UNCHANGED <<devOpen, ringVars, layerVars>>

TurnOff(ok) ==
    /\ devOpen
    /\ leds' = Dark
    /\ Step(Call("TurnOff", "none", <<>>, <<TRUE>>, IF ok THEN 0 ELSE 1))
    /\ UNCHANGED <<devOpen, ringVars, layerVars>>

\* a Close that releases the device without turning the ring off
CloseOnly(ok) ==
    /\ devOpen
    /\ devOpen' = FALSE
    /\ Step(Call("Close", "none", <<>>, <<>>, 0))
    /\ UNCHANGED <<leds, ringVars, layerVars>>

\* Close: TurnOff, then device.Fini()
Close(ok) ==
    /\ devOpen
    /\ leds' = Dark
    /\ devOpen' = FALSE
    /\ Step(Call("Close", "none", <<>>, <<TRUE>>, IF ok THEN 0 ELSE 1))
    /\ UNCHANGED <<ringVars, layerVars>>

----------------------------------------------------------------------------------------------------------------------------------------
(* One layer after NewLayer(options), mutated by its owner *)

Idle(n) ==
    /\ ledCount = n
    /\ layers = <<>>
    /\ offset = 0
    /\ ledOffset = 0
    /\ turned = 0
    /\ leds = [i \in 0..(n - 1) |-> 0]
    /\ devOpen = TRUE
    /\ last = Call("New", "ok", <<>>, <<>>, 0)
    /\ prev = [op |-> "other", flushes |-> <<>>]
    /\ rt = <<>>
    /\ at = AtRest

InitLayer ==
    /\ \E res \in 1..MaxRes, mode \in ContentModes : lyr = <<NewLayerValue(res, mode)>>
    /\ rotated = <<0>>
    /\ Idle(NumLeds)
    /\ args = <<>>
    /\ got = <<>>

NextLayer ==
    \/ \E c \in Palette : SetAll(1, c)
    \/ \E i \in -1..MaxRes, c \in Palette : SetPixel(1, i, c)
    \/ \E k \in Angles : Rotate(1, k)

SpecLayer == InitLayer /\ [][NextLayer]_vars

----------------------------------------------------------------------------
(* The ring after New(options), with two painted layers not yet added,     *)
(* driven by one caller                                                    *)

BottomShade(i) == RGBA8(<<255 - ((60 * i) % 256), (40 * i) % 256, 0, 255>>)

TopShade(i) == IF i % 2 = 1 THEN Transparent ELSE NRGBA(0, (40 * i) % 256, 128, 200)

RECURSIVE Paint(_, _, _)
Paint(L, shade, n) ==
    IF n = 0 THEN L ELSE SetPixelValue(Paint(L, shade, n - 1), n - 1, shade[n - 1])

Bottom(res, mode) == Paint(NewLayerValue(res, mode), [i \in 0 .. res - 1 |-> BottomShade(i)], res)

Top(res, mode) == RotateValue(Paint(NewLayerValue(res, mode), [i \in 0 .. res - 1 |-> TopShade(i)], res), 1)

Init ==
    /\ \E r1 \in 1..MaxRes, r2 \in 1..MaxRes, m2 \in ContentModes :
           lyr = <<Bottom(r1, "Tile"), Top(r2, m2)>>
    /\ rotated = <<0, 1>>
    /\ Idle(NumLeds)
    /\ args = <<>>
    /\ got = <<>>

Next ==
    \/ \E l \in DOMAIN lyr : AddLayer(l)
    \/ \E k \in Angles : Offset(k)
    \/ \E ok \in BOOLEAN : Render(ok)
    \/ \E ok \in BOOLEAN : TurnOff(ok)
    \/ \E ok \in BOOLEAN : Close(ok)

Spec == Init /\ [][Next]_vars

----------------------------------------------------------------------------
(* Goroutines: Render and the mutations of layer 1 taken one memory access *)
(* at a time.  The code holds no lock, so the accesses interleave freely.  *)

\* the complete buffer layer 1 had at its last call boundary
stable == IF at.pc = "idle" THEN lyr[1].buffer ELSE at.before

\* what a Render reads of layer 1 at position i when the layer's buffer is v
sample(v, i) == layerPixel([lyr[1] EXCEPT !.buffer = v], i)

\* the positions p of layer 1 in the stack
slots == {j \in DOMAIN layers : layers[j] = 1}

\* buffer v of layer 1 agrees with the rows of colours read so far
agrees(v, obs) ==
    \A i \in DOMAIN obs : \A j \in slots : obs[i][j] = sample(v, i - 1)

\* Render, entry: pixels and pixel are allocated.  History: obs holds the rows
\* of colours read so far in this pass, whole the complete buffers layer 1
\* had at a call boundary during the pass that agree with every row read
RenderBegin(t) ==
    /\ devOpen
    /\ rt[t].pc = "idle"
    /\ rt' = [rt EXCEPT ![t] = [pc |-> "read", i |-> 0, j |-> 1, pixel |-> <<>>,
                                pixels |-> <<>>, obs |-> <<>>, whole |-> {stable}]]
    /\ UNCHANGED <<at, ringVars, layerVars, devVars, histVars, mathVars>>

\* Render, first loop: pixel[j] is read from layer j at position i; after the
\* last layer, pixels[i] = blendOver(pixel...)
RenderRead(t) ==
    LET T == rt[t]
        row == Append(T.pixel, layerPixel(lyr[layers[T.j]], T.i))
    IN  /\ T.pc = "read"
        /\ rt' = [rt EXCEPT ![t] =
               IF T.j < Len(layers)
                 THEN [T EXCEPT !.j = T.j + 1, !.pixel = row]
                 ELSE [T EXCEPT !.j = 1, !.pixel = <<>>,
                                !.i = IF T.i + 1 < Size THEN T.i + 1 ELSE 0,
                                !.pc = IF T.i + 1 < Size THEN "read" ELSE "write",
                                !.pixels = Append(T.pixels, blendOver(row)),
                                !.obs = IF T.i + 1 < Size THEN Append(T.obs, row) ELSE <<>>,
                                !.whole = {v \in T.whole : agrees(v, Append(T.obs, row))}]]
        /\ UNCHANGED <<at, ringVars, layerVars, devVars, histVars, mathVars>>

\* Render, second loop: device.Leds(0)[i] is written
RenderWrite(t) ==
    LET T == rt[t]
        pixels == [i \in 0..(Size - 1) |-> T.pixels[i + 1]]
        rotFloat == offset - renderShift * AngleSteps
    IN  /\ T.pc = "write"
        /\ leds' = [leds EXCEPT ![T.i] =
                       serialize(lerp(renderShift + T.i, pixels, <<rotFloat, AngleSteps>>))]
        /\ rt' = [rt EXCEPT ![t] =
               [T EXCEPT !.i = T.i + 1,
                         !.pc = IF T.i + 1 < Size THEN "write" ELSE "flush"]]
        /\ UNCHANGED <<at, devOpen, ringVars, layerVars, histVars, mathVars>>

\* Render, exit: device.Render() has flushed the buffer and returned
RenderFlush(t) ==
    /\ rt[t].pc = "flush"
    /\ rt' = [rt EXCEPT ![t] = AtRest]
    /\ UNCHANGED <<at, ringVars, layerVars, devVars, histVars, mathVars>>

\* SetAll(c), entry
SetAllBegin(c) ==
    /\ at.pc = "idle"
    /\ at' = [pc |-> "pixels", i |-> 0, c |-> c, before |-> lyr[1].buffer]
    /\ UNCHANGED <<rt, ringVars, layerVars, devVars, histVars, mathVars>>

\* SetAll, loop: l.pixels[i] = c
SetAllStore ==
    /\ at.pc = "pixels"
    /\ lyr' = [lyr EXCEPT ![1].pixels[at.i] = at.c]
    /\ at' = IF at.i + 1 < lyr[1].res THEN [at EXCEPT !.i = at.i + 1]
                                      ELSE [at EXCEPT !.i = 0, !.pc = "update"]
    /\ UNCHANGED <<rt, rotated, ringVars, devVars, histVars, mathVars>>

\* SetPixel(i, c) up to its call of update
SetPixelStore(i, c) ==
    /\ at.pc = "idle"
    /\ lyr' = [lyr EXCEPT ![1].pixels[i] = c]
    /\ at' = [pc |-> "update", i |-> 0, c |-> c, before |-> lyr[1].buffer]
    /\ UNCHANGED <<rt, rotated, ringVars, devVars, histVars, mathVars>>

\* Rotate(angle) up to its call of update
RotateStore(k) ==
    /\ at.pc = "idle"
    /\ lyr' = [lyr EXCEPT ![1].rotInt = (k * lyr[1].res) \div AngleSteps,
                          ![1].rotFloat = (k * lyr[1].res) % AngleSteps]
    /\ rotated' = [rotated EXCEPT ![1] = k]
    /\ at' = [pc |-> "update", i |-> 0, c |-> Transparent, before |-> lyr[1].buffer]
    /\ UNCHANGED <<rt, ringVars, devVars, histVars, mathVars>>

\* update, loop: l.buffer[i] = l.pixelRotated(i); the mutation returns after
\* the last store
UpdateStore ==
    LET L == lyr[1]
        new == [L.buffer EXCEPT ![at.i] = pixelRotated(L, at.i)]
        done == at.i + 1 >= L.res
    IN  /\ at.pc = "update"
        /\ lyr' = [lyr EXCEPT ![1].buffer = new]
        /\ at' = IF done THEN AtRest ELSE [at EXCEPT !.i = at.i + 1]
        /\ rt' = [t \in DOMAIN rt |->
                     IF done /\ rt[t].pc = "read" /\ agrees(new, rt[t].obs)
                       THEN [rt[t] EXCEPT !.whole = @ \cup {new}]
                       ELSE rt[t]]
        /\ UNCHANGED <<rotated, ringVars, devVars, histVars, mathVars>>

RaceLeds == 2

\* One render goroutine and one animation goroutine that owns layer 1, the
\* only layer of the ring, with one pixel for each LED
InitRace ==
    /\ \E mode \in ContentModes : lyr = <<NewLayerValue(RaceLeds, mode)>>
    /\ rotated = <<0>>
    /\ ledCount = RaceLeds
    /\ layers = <<1>>
    /\ offset = 0
    /\ ledOffset = 0
    /\ turned = 0
    /\ leds = [i \in 0..(RaceLeds - 1) |-> 0]
    /\ devOpen = TRUE
    /\ last = Call("AddLayer", "none", <<>>, <<>>, 0)
    /\ prev = [op |-> "other", flushes |-> <<>>]
    /\ rt = <<AtRest>>
    /\ at = AtRest
    /\ args = <<>>
    /\ got = <<>>

NextRace ==
    \/ RenderBegin(1)
    \/ RenderRead(1)
    \/ RenderWrite(1)
    \/ RenderFlush(1)
    \/ \E c \in {Transparent, OpaqueRed} : SetAllBegin(c)
    \/ SetAllStore
    \/ \E i \in 0..(lyr[1].res - 1), c \in {Transparent, OpaqueRed} : SetPixelStore(i, c)
    \/ \E k \in {0, 1} : RotateStore(k)
    \/ UpdateStore

SpecRace == InitRace /\ [][NextRace]_vars

\* Two goroutines that call Render on one ring whose layers stand still
InitRenders ==
    /\ \E r1 \in 1..MaxRes, r2 \in 1..MaxRes, m2 \in ContentModes :
           lyr = <<Bottom(r1, "Tile"), Top(r2, m2)>>
    /\ rotated = <<0, 1>>
    /\ ledCount = NumLeds
    /\ layers \in {<<1>>, <<1, 2>>}
    /\ offset = 0
    /\ ledOffset = 0
    /\ turned = 0
    /\ leds = [i \in 0..(NumLeds - 1) |-> 0]
    /\ devOpen = TRUE
    /\ last = Call("AddLayer", "none", <<>>, <<>>, 0)
    /\ prev = [op |-> "other", flushes |-> <<>>]
    /\ rt = <<AtRest, AtRest>>
    /\ at = AtRest
    /\ args = <<>>
    /\ got = <<>>

NextRenders ==
    \E t \in DOMAIN rt :
        \/ RenderBegin(t)
        \/ RenderRead(t)
        \/ RenderWrite(t)
        \/ RenderFlush(t)

SpecRenders == InitRenders /\ [][NextRenders]_vars

----------------------------------------------------------------------------
(* The colour functions applied to drawn arguments *)

MaxStack == 2

Black == RGBA8(<<0, 0, 0, 255>>)
TestColour == RGBA8(<<21, 22, 23, 24>>)
TestRed == NRGBA(128, 0, 0, 161)
TestGreen == NRGBA(0, 128, 0, 255)
\* color.NRGBA64{0x3214, 0x1234, 0x00FF, 0xFFFF}
Deep == <<12820, 4660, 255, Max16>>

Colours == {Transparent, Black, White, OpaqueRed, DarkBlue, TestColour, TestRed,
            TestGreen, Deep}

RECURSIVE Stacks(_)
Stacks(n) ==
    IF n = 0 THEN {<<>>}
    ELSE LET S == Stacks(n - 1) IN S \cup {Append(st, c) : st \in S, c \in Colours}

InitMath ==
    /\ lyr = <<>>
    /\ rotated = <<>>
    /\ Idle(NumLeds)
    /\ args \in Stacks(MaxStack) \ {<<>>}
    /\ got = <<>>

BlendOver ==
    /\ got = <<>>
    /\ got' = blendOver(args)
    /\ UNCHANGED <<args, ringVars, layerVars, devVars, histVars, concVars>>

NextMath == BlendOver

SpecMath == InitMath /\ [][NextMath]_vars

\* color.RGBA{128, 128, 0, 128} and color.RGBA{0, 255, 255, 255}
LerpA == RGBA8(<<128, 128, 0, 128>>)
LerpB == RGBA8(<<0, 255, 255, 255>>)
\* color.NRGBA{1, 0, 0, 1}: the faintest red
Faint == NRGBA(1, 0, 0, 1)

LerpColours == {Transparent, Faint, LerpA, LerpB, White, Deep}

\* amounts l in [0, 1] as fractions; 1/50000 = 0.00002 has l16 = 1
Amounts == {<<0, 1>>, <<1, 50000>>, <<1, 4>>, <<1, 2>>, <<3, 4>>, <<1, 1>>}

AtMost(s, t) == s[1] * t[2] <= t[1] * s[2]

\* blendLerp is called on the same two colours with two amounts t1 <= t2
InitLerp ==
    /\ lyr = <<>>
    /\ rotated = <<>>
    /\ Idle(NumLeds)
    /\ \E a \in LerpColours, b \in LerpColours, t1 \in Amounts, t2 \in Amounts :
           /\ AtMost(t1, t2)
           /\ args = <<a, b, t1, t2>>
    /\ got = <<>>

BlendLerp ==
    /\ got = <<>>
    /\ got' = <<blendLerp(args[1], args[2], args[3]), blendLerp(args[1], args[2], args[4])>>
    /\ UNCHANGED <<args, ringVars, layerVars, devVars, histVars, concVars>>

NextLerp == BlendLerp

SpecLerp == InitLerp /\ [][NextLerp]_vars

\* channel values with a zero, a low-only, a mixed and a full high byte
Levels == {0, 255, 4660, 12820, Max16}

\* serialize is called on a colour whose RGBA() is alpha-premultiplied
InitSerialize ==
    /\ lyr = <<>>
    /\ rotated = <<>>
    /\ Idle(NumLeds)
    /\ \E r \in Levels, g \in Levels, b \in Levels, a \in Levels :
           /\ r <= a /\ g <= a /\ b <= a
           /\ args = <<<<r, g, b, a>>>>
    /\ got = <<>>

Serialize ==
    /\ got = <<>>
    /\ got' = <<serialize(args[1])>>
    /\ UNCHANGED <<args, ringVars, layerVars, devVars, histVars, concVars>>

NextSerialize == Serialize

SpecSerialize == InitSerialize /\ [][NextSerialize]_vars

----------------------------------------------------------------------------
(* A ring of 8 LEDs with a background layer of one pixel and a layer of 4  *)
(* pixels in Tile mode, painted, stacked and rendered by one caller        *)

InitScene ==
    /\ \E m1 \in {"Tile", "Scale"} : lyr = <<NewLayerValue(1, m1), NewLayerValue(4, "Tile")>>
    /\ rotated = <<0, 0>>
    /\ Idle(8)
    /\ args = <<>>
    /\ got = <<>>

NextScene ==
    \/ \E c \in {White, Transparent} : SetAll(1, c)
    \/ \E i \in {0, 1}, c \in {OpaqueRed, Transparent} : SetPixel(2, i, c)
    \/ \E l \in DOMAIN lyr : AddLayer(l)
    \/ \E ok \in BOOLEAN : Render(ok)

SpecScene == InitScene /\ [][NextScene]_vars

----------------------------------------------------------------------------
(* Claims about one layer, under SpecLayer *)

\* the decomposition of angle k * 2*pi/AngleSteps on a layer of res pixels:
\* indexShift = floor(angle/pixelArc), blendWeight = angle/pixelArc - indexShift
indexShift(k, res) == (k * res) \div AngleSteps
blendWeight(k, res) == <<k * res - indexShift(k, res) * AngleSteps, AngleSteps>>

Sampled(l) ==
    LET L == lyr[l]
        sh == indexShift(rotated[l], L.res)
        w == blendWeight(rotated[l], L.res)
    IN  \A i \in 0..(L.res - 1) :
            L.buffer[i] = blendLerp(L.pixels[mod(i + sh, L.res)],
                                    L.pixels[mod(i + sh + 1, L.res)], w)

\* C1: after creation and after every SetAll, SetPixel and Rotate, each
\* buffer[i] is lerp(pixels[wrap(i+indexShift)], pixels[wrap(i+indexShift+1)],
\* blendWeight) for the decomposition of the last angle passed to Rotate.
C1_BufferSampled == \A l \in DOMAIN lyr : Sampled(l)

\* a rotated layer (negative angle, fractional weight) whose pixels differ
\* has just had a pixel set
C1_Witness ==
    /\ last.op = "SetPixel" /\ last.ret = "none"
    /\ rotated[1] = -1
    /\ lyr[1].res = MaxRes
    /\ lyr[1].pixels[0] # lyr[1].pixels[1]
    /\ lyr[1].buffer # lyr[1].pixels

\* C2: SetPixel(index, colour) never fails, whatever the index: the pixel at
\* wrap(index) holds the colour afterwards and the buffer is resampled.
C2_SetPixelNeverFails ==
    last.op = "SetPixel" =>
        LET l == last.arg[1]
            i == last.arg[2]
        IN  /\ last.ret # "panic"
            /\ lyr[l].pixels[mod(i, lyr[l].res)] = last.arg[3]
            /\ Sampled(l)

\* the layer with the pixels of L as it is before any Rotate
Unrotated(L) == update([L EXCEPT !.rotInt = 0, !.rotFloat = 0])

\* a full turn, 2*pi, in angle steps
FullTurn == AngleSteps

\* C13: Rotate is absolute and periodic in a full turn: whatever Rotate calls
\* came before, the buffer after Rotate(angle) is the one Rotate(angle) gives
\* the unrotated layer, it is the one Rotate(angle + 2*pi) and
\* Rotate(angle - 2*pi) give, and after Rotate(2*pi) (or any whole number of
\* turns) it is the buffer of the unrotated layer.
C13_RotatePeriodic ==
    \A l \in DOMAIN lyr :
        LET L == lyr[l]
            k == rotated[l]
            base == Unrotated(L)
        IN  /\ L.buffer = RotateValue(base, k).buffer
            /\ L.buffer = RotateValue(base, k + FullTurn).buffer
            /\ L.buffer = RotateValue(base, k - FullTurn).buffer
            /\ L.buffer = RotateValue(RotateValue(base, 1), k + FullTurn).buffer
            /\ k % FullTurn = 0 => L.buffer = base.buffer

\* a layer of pixels that differ has just been rotated by a full turn, which
\* shifts the index by the whole resolution
C13_Witness ==
    /\ last.op = "Rotate"
    /\ rotated[1] = FullTurn
    /\ lyr[1].res = MaxRes /\ lyr[1].rotInt = MaxRes
    /\ lyr[1].pixels[0] # lyr[1].pixels[1]
    /\ lyr[1].buffer = Unrotated(lyr[1]).buffer

----------------------------------------------------------------------------
(* Claims about the ring and the device, under Spec *)

IsDark(f) == f

\* the buffers flushed by the last call, after those of a TurnOff just before it
shutdownFlushes == prev.flushes \o last.flushes

\* C5 as stated: TurnOff and then Close flush an all-zero buffer exactly once
\* before the device is released.
C5_ZeroFlushedOnce ==
    (last.op = "Close" /\ prev.op = "TurnOff") =>
        /\ Len(SelectSeq(shutdownFlushes, IsDark)) = 1
        /\ ~devOpen

\* C5 amended: TurnOff and then Close flush an all-zero buffer twice, once in
\* TurnOff and once in the TurnOff that Close itself calls, before the device
\* is released; no other buffer is flushed and the device buffer stays zero.
C5_ZeroFlushedTwice ==
    (last.op = "Close" /\ prev.op = "TurnOff") =>
        /\ shutdownFlushes = <<TRUE, TRUE>>
        /\ leds = Dark
        /\ ~devOpen

\* a ring that rendered a lit frame, was turned off and then closed
C5_Witness ==
    /\ last.op = "Close" /\ prev.op = "TurnOff"
    /\ ~devOpen
    /\ Len(layers) = MaxLayers

\* C6: whenever the device flush fails inside Render, TurnOff or Close, the
\* caller of that operation gets the failure; the flush is not retried.
C6_FlushErrorsPropagate ==
    /\ last.failed > 0 => last.ret = "err"
    /\ Len(last.flushes) <= 1

\* C7: Render (flush accepted or rejected) and TurnOff leave the layer stack,
\* every layer's pixels, rotation and buffer, and the offset as they were
\* (the next frame, renderFrame, is a function of these alone).
C7_RenderKeepsState ==
    [][ last'.op \in {"Render", "TurnOff"} => UNCHANGED <<ringVars, layerVars>> ]_vars

\* a failed Render of a lit frame right after a TurnOff, with two layers and
\* a negative offset
C7_Witness ==
    /\ last.op = "Render" /\ last.ret = "err"
    /\ prev.op = "TurnOff"
    /\ Len(layers) = MaxLayers
    /\ offset < 0
    /\ leds # Dark

\* offsetShift = floor(offset/ledArc), offsetWeight = offset/ledArc - offsetShift
\* for the angle k * 2*pi/AngleSteps, on a ring of n LEDs
offsetShift(k, n) == (k * n) \div AngleSteps
offsetWeight(k, n) == <<k * n - offsetShift(k, n) * AngleSteps, AngleSteps>>

\* the colour layer L gives ring position i, by content mode
mapped(L, i) ==
    CASE L.mode = "Tile"  -> L.buffer[i % L.res]
      [] L.mode = "Crop"  -> IF i < L.res THEN L.buffer[i] ELSE Transparent
      [] L.mode = "Scale" -> L.buffer[(i * L.res) \div ledCount]

\* raw[p]: the layers' colours at position p composited in insertion order
raw(p) == blendOver([j \in 1..Len(layers) |-> mapped(lyr[layers[j]], p)])

\* C8: Render writes quantize(lerp(raw[wrap(i+offsetShift)],
\* raw[wrap(i+offsetShift+1)], offsetWeight)) at every position i, for the
\* floor decomposition of the angle last passed to Offset.
C8_RenderedFrame ==
    last.op = "Render" =>
        LET sh == offsetShift(turned, ledCount)
            w == offsetWeight(turned, ledCount)
        IN  /\ w[1] >= 0 /\ w[1] < w[2]
            /\ \A i \in 0..(ledCount - 1) :
                   leds[i] = serialize(blendLerp(raw(mod(i + sh, ledCount)),
                                                 raw(mod(i + sh + 1, ledCount)), w))

\* a frame rendered from two different layers under a negative offset with a
\* fractional part
C8_Witness ==
    /\ last.op = "Render"
    /\ turned < 0
    /\ offsetWeight(turned, ledCount)[1] > 0
    /\ Len(layers) = MaxLayers /\ layers[1] # layers[2]
    /\ \E i \in 0..(ledCount - 1) : leds[i] # leds[0]

\* the layer index each mode asks for at position i (-1: none, transparent)
wanted(mode, res, i, n) ==
    CASE mode = "Tile"  -> i % res
      [] mode = "Crop"  -> IF i < res THEN i ELSE -1
      [] mode = "Scale" -> (i * res) \div n

\* C9: Tile gives sample(i mod R), Crop sample(i) below R and transparent from
\* R on, Scale sample(floor(i*R/ledCount)); the index asked for is within
\* [0, R), it is 0 at i = 0 in every mode, and Tile repeats with period R.
C9_ContentModes ==
    /\ \A l \in DOMAIN lyr : \A i \in 0..(ledCount - 1) :
           LET L == lyr[l]
               x == wanted(L.mode, L.res, i, ledCount)
           IN  /\ x < L.res
               /\ x = -1 <=> (L.mode = "Crop" /\ i >= L.res)
               /\ layerPixel(L, i) = IF x = -1 THEN Transparent ELSE L.buffer[x]
               /\ i = 0 => x = 0
               /\ L.mode = "Tile" => layerPixel(L, i + L.res) = layerPixel(L, i)
    /\ scale(0, 12, 3) = 0 /\ scale(11, 12, 3) = 2
    /\ \A i \in 3..11 : wanted("Crop", 3, i, 12) = -1
    /\ wanted("Tile", 3, 3, 12) = wanted("Tile", 3, 0, 12)

\* a rendered ring holding a layer shorter than the ring in Crop mode beside
\* a layer in Tile mode, both with pixels that differ
C9_Witness ==
    /\ last.op = "Render"
    /\ lyr[2].mode = "Crop" /\ lyr[2].res < ledCount /\ lyr[2].res > 1
    /\ lyr[1].res > 1 /\ lyr[1].res < ledCount
    /\ layers = <<1, 2>>

----------------------------------------------------------------------------
(* Claims about the colour functions, under SpecMath *)

\* color.RGBAModel.Convert(c): the colour as a color.RGBA, 8 bits a channel
asRGBA(c) == RGBA8(<<c[1] \div Shift8, c[2] \div Shift8, c[3] \div Shift8, c[4] \div Shift8>>)

Opaque(c) == c[4] = Max16

\* a colour that a color.RGBA holds exactly
Is8(c) == \A k \in 1..4 : c[k] % 257 = 0

\* C10: blendOver takes its first argument as the bottom and its last as the
\* top: one colour alone comes back as it is (as the color.RGBA of that
\* colour, which is the colour itself when it has 8 bits a channel), opaque
\* colours give the top one, {black, white} gives white and {white, black}
\* gives black.
C10_BlendOverOrder ==
    got # <<>> =>
        LET top == args[Len(args)]
        IN  /\ Len(args) = 1 => got = asRGBA(top)
            /\ (\A k \in 1..Len(args) : Opaque(args[k])) => got = asRGBA(top)
            /\ (Is8(top) /\ (Len(args) = 1 \/ \A k \in 1..Len(args) : Opaque(args[k])))
                   => got = top
            /\ args = <<Black, White>> => got = White
            /\ args = <<White, Black>> => got = Black

\* opaque black was composited over opaque white
C10_Witness == args = <<White, Black>> /\ got = Black

----------------------------------------------------------------------------
(* Claims about blendLerp, under SpecLerp *)

\* the 8-bit value of channel k of a colour
Byte(c, k) == c[k] \div Shift8

Between(x, p, q) == (p <= x /\ x <= q) \/ (q <= x /\ x <= p)

\* C11: blendLerp(a, b, 0) is a and blendLerp(a, b, 1) is b in every channel,
\* within one unit; for t1 <= t2 every channel of blendLerp(a, b, t) lies
\* between a's value and b's and moves from a's towards b's, whether a's
\* channel is the larger or the smaller.
C11_LerpMonotone ==
    got # <<>> =>
        \A k \in 1..4 :
            LET A == Byte(args[1], k)
                B == Byte(args[2], k)
                x1 == Byte(got[1], k)
                x2 == Byte(got[2], k)
            IN  /\ args[3] = <<0, 1>> => Between(x1, A - 1, A + 1)
                /\ args[4] = <<1, 1>> => Between(x2, B - 1, B + 1)
                /\ Between(x1, A, B) /\ Between(x2, A, B)
                /\ args[1][k] >= args[2][k] => x1 >= x2
                /\ args[1][k] <= args[2][k] => x1 <= x2

----------------------------------------------------------------------------
(* Claims about serialize, under SpecSerialize *)

\* color.Gray{Y}.RGBA()
Gray(Y) == <<Y * 257, Y * 257, Y * 257, Max16>>

\* C12: serialize returns ((R>>8)<<16)|((G>>8)<<8)|(B>>8) of the colour's
\* 16-bit channels: bits 16-23 hold R>>8, bits 8-15 G>>8, bits 0-7 B>>8, the
\* top 8 bits are zero, and the alpha channel has no effect on the result.
C12_SerializePacks ==
    /\ got # <<>> =>
           LET c == args[1]
               v == got[1]
           IN  /\ v \div (Shift8 * Shift8 * Shift8) = 0
               /\ (v \div (Shift8 * Shift8)) % Shift8 = c[1] \div Shift8
               /\ (v \div Shift8) % Shift8 = c[2] \div Shift8
               /\ v % Shift8 = c[3] \div Shift8
               /\ \A a \in Levels : serialize(<<c[1], c[2], c[3], a>>) = v
    /\ serialize(NRGBA(22, 22, 22, 255)) = 1447446
    /\ serialize(NRGBA(255, 255, 255, 50)) = 3289650
    /\ serialize(Deep) = 3281408
    /\ serialize(Gray(16)) = 1052688

\* a translucent colour whose red and blue differ and whose red has a low
\* byte has been packed
C12_Witness ==
    /\ got # <<>>
    /\ args[1][4] < Max16
    /\ args[1][1] # args[1][3]
    /\ args[1][1] % Shift8 # 0
    /\ got[1] > Shift8 * Shift8

----------------------------------------------------------------------------
(* Claims about a rendered scene, under SpecScene *)

\* the scene: 8 LEDs, no offset, an opaque white layer of one pixel below a
\* Tile layer of 4 pixels that is opaque red at pixel 0 and transparent elsewhere
WhiteUnderRedDots ==
    /\ ledCount = 8 /\ offset = 0
    /\ layers = <<1, 2>>
    /\ lyr[1].res = 1 /\ lyr[1].pixels[0] = White
    /\ lyr[2].res = 4 /\ lyr[2].mode = "Tile"
    /\ lyr[2].pixels = [i \in 0..3 |-> IF i = 0 THEN OpaqueRed ELSE Transparent]

\* C14: on that scene Render writes pure red, 0xFF0000, at positions 0 and 4
\* and pure white, 0xFFFFFF, at positions 1-3 and 5-7.
C14_SceneRendered ==
    (last.op = "Render" /\ WhiteUnderRedDots) =>
        \A i \in 0..7 : leds[i] = IF i \in {0, 4} THEN 16711680 ELSE 16777215

\* the scene has been painted, stacked and rendered
C14_Witness ==
    /\ last.op = "Render" /\ last.ret = "ok"
    /\ WhiteUnderRedDots
    /\ leds[4] # leds[5]

----------------------------------------------------------------------------
(* Claims about goroutines, under SpecRace and SpecRenders *)

\* C3: a Render that runs beside a mutation of a layer sees the layer's buffer
\* entirely as it was before the mutation or entirely as it is after it: what
\* a finished pass read of the layer is one of the layer's complete buffers.
C3_NoTornBuffer ==
    \A t \in DOMAIN rt : rt[t].pc \in {"write", "flush"} => rt[t].whole # {}

\* C4: at most one task is between its first write to the device buffer and
\* the return of its device flush.
C4_RendersSerialized ==
    Cardinality({t \in DOMAIN rt :
                    \/ rt[t].pc = "write" /\ rt[t].i > 0
                    \/ rt[t].pc = "flush"}) <= 1

====
